---------------------------- MODULE Spec2Model ----------------------------
(***************************************************************************)
(* A model of ParseDoxygenCommandHelpPage.py: the fragment algebra         *)
(* (merge_fragments, lstrip_fragments, rstrip_fragments, strip_fragments), *)
(* the header splitter, the markup tree walker and the command extractor.  *)
(*                                                                         *)
(* Python strings are TLA+ strings; a character is a string of length 1.   *)
(* A Fragment is a record [type, content, hyperlink].                      *)
(***************************************************************************)
EXTENDS Integers, Sequences, FiniteSets, TLC

VARIABLES
    mode,        \* which part of the program this behaviour exercises
    fragments,   \* fragment algebra: the current fragment list
    prev,        \* fragment algebra: the argument of the last call
    to_strip,    \* fragment algebra: the strip argument, <<>> is None
    lastOp,      \* fragment algebra: the function called last
    prevOp,      \* fragment algebra: the function called before that
    header,      \* ParsedCommand: the raw header text
    command,     \* ParsedCommand: self.command
    parameters,  \* ParsedCommand: self.parameters
    raised,      \* the exception that ended the run, "" when none
    objs,        \* object level: the Fragment objects, by identity 1..Len(objs)
    lists,       \* object level: the list objects, each a sequence of identities
    arg,         \* object level: the list object passed to the call
    ret,         \* object level: the list object the call returned, 0 before it
    orig,        \* object level: objs and lists as they were before the call
    edited,      \* object level: whether the caller has edited the result
    tree,        \* walker: the contents of the parent of the tag that is walked
    pos,         \* walker: the index in tree of the tag that is walked
    walk,        \* walker: [done, result], the result of parse_recursive
    doc,         \* extractor: the contents of the parsed document
    run,         \* extractor: [sibs, uls], the siblings of the first center tag
    tagIdx,      \* extractor: the index in run.sibs of the loop variable tag, 0 is None
    all_parsed_commands,  \* extractor: the list the loop appends to
    returned,    \* extractor: <<>> until the function returns, then <<the list>>
    pc           \* extractor: "find", "loop", "done" or "raised"

fragVars == <<fragments, prev, to_strip, lastOp, prevOp>>

headerVars == <<header, command, parameters>>

objVars == <<objs, lists, arg, ret, orig, edited>>

walkVars == <<tree, pos, walk>>

extractVars == <<doc, run, tagIdx, all_parsed_commands, returned, pc>>

vars == <<mode, fragVars, headerVars, raised, objVars, walkVars, extractVars>>

FragIdle ==
    /\ fragments = <<>> /\ prev = <<>> /\ to_strip = <<>>
    /\ lastOp = "none" /\ prevOp = "none"

HeaderIdle == header = "" /\ command = "" /\ parameters = ""

ObjIdle ==
    /\ objs = <<>> /\ lists = <<>> /\ arg = 0 /\ ret = 0
    /\ orig = <<>> /\ edited = FALSE

NotWalked == [done |-> FALSE, result |-> [err |-> "", frs |-> <<>>]]

WalkIdle == tree = <<>> /\ pos = 0 /\ walk = NotWalked

NoRun == [sibs |-> <<>>, uls |-> 0]

ExtractIdle ==
    /\ doc = <<>> /\ run = NoRun /\ tagIdx = 0
    /\ all_parsed_commands = <<>> /\ returned = <<>> /\ pc = "idle"

-----------------------------------------------------------------------------
(* Python str primitives *)

Min(a, b) == IF a < b THEN a ELSE b

Max(a, b) == IF a < b THEN b ELSE a

\* s[i] for a 1-based index
Char(s, i) == SubSeq(s, i, i)

\* sub in s
Contains(s, sub) ==
    \E i \in 1..(Len(s) - Len(sub) + 1) : SubSeq(s, i, i + Len(sub) - 1) = sub

\* s.startswith(sub)
StartsWith(s, sub) == Len(sub) <= Len(s) /\ SubSeq(s, 1, Len(sub)) = sub

\* s.find(ch) as a 0-based position, -1 when absent
Find(s, ch) ==
    IF \E i \in 1..Len(s) : Char(s, i) = ch
    THEN (CHOOSE i \in 1..Len(s) :
              Char(s, i) = ch /\ \A j \in 1..(i - 1) : Char(s, j) # ch) - 1
    ELSE -1

\* s[from:to] for 0-based bounds with 0 <= from
Slice(s, from, to) == SubSeq(s, from + 1, Min(to, Len(s)))

\* The characters str.strip() removes when it is given no argument: those
\* for which str.isspace() holds.  A string of the model holds characters up
\* to U+00FF only, and these are the space, tab, newline, carriage return
\* and form feed, the vertical tab U+000B, the separators U+001C to U+001F,
\* the next line U+0085 and the no-break space U+00A0; the last seven stand
\* in the string as they are.
Whitespace == " \t\n\r\f "

\* The characters a strip call removes: to_strip is <<>> for None, <<chars>> otherwise.
StripChars(ts) == IF Len(ts) = 0 THEN Whitespace ELSE ts[1]

InChars(c, chars) == \E j \in 1..Len(chars) : Char(chars, j) = c

\* s.lstrip(to_strip)
lstrip(s, ts) ==
    LET cs == StripChars(ts)
        keep == {i \in 1..Len(s) : ~InChars(Char(s, i), cs)}
    IN  IF keep = {} THEN ""
        ELSE SubSeq(s, CHOOSE i \in keep : \A j \in keep : i <= j, Len(s))

\* s.rstrip(to_strip)
rstrip(s, ts) ==
    LET cs == StripChars(ts)
        keep == {i \in 1..Len(s) : ~InChars(Char(s, i), cs)}
    IN  IF keep = {} THEN ""
        ELSE SubSeq(s, 1, CHOOSE i \in keep : \A j \in keep : j <= i)

\* s.strip(to_strip)
strip(s, ts) == lstrip(rstrip(s, ts), ts)

-----------------------------------------------------------------------------
(* Fragment and the fragment algebra *)

FragmentType == {"Text", "Code", "Emphasis", "Note", "Warning", "Command"}

Fragment(type, content, hyperlink) ==
    [type |-> type, content |-> content, hyperlink |-> hyperlink]

HtmlDocPhrase == "for the corresponding HTML documentation"

\* "".join(f.content for f in frs)
RECURSIVE JoinContents(_)
JoinContents(frs) ==
    IF Len(frs) = 0 THEN "" ELSE frs[1].content \o JoinContents(Tail(frs))

\* The condition of merge_fragments under which fragments[idx] is appended to
\* the last fragment of new_list (idx is 1-based here).
do_merge(frs, idx, new_list) ==
    LET f == frs[idx]
        last == new_list[Len(new_list)]
    IN  /\ f.type = last.type
        /\ f.hyperlink = last.hyperlink
        /\ ~ ( /\ Contains(f.content, "Click ")
               /\ idx + 2 <= Len(frs)
               /\ Contains(frs[idx + 1].content, "here")
               /\ Contains(frs[idx + 2].content, HtmlDocPhrase) )
        /\ ( \/ ~Contains(last.content, HtmlDocPhrase)
             \/ strip(f.content, <<>>) = "" )

RECURSIVE MergeLoop(_, _, _)
MergeLoop(frs, idx, new_list) ==
    IF idx > Len(frs) THEN new_list
    ELSE LET f == frs[idx]
             n == Len(new_list)
         IN  IF do_merge(frs, idx, new_list)
             THEN MergeLoop(frs, idx + 1,
                      [new_list EXCEPT ![n].content = @ \o f.content])
             ELSE MergeLoop(frs, idx + 1, Append(new_list, f))

\* [f for f in new_list if len(f.content) > 0]
RemoveEmpty(new_list) == SelectSeq(new_list, LAMBDA f : Len(f.content) > 0)

merge_fragments(frs) ==
    IF Len(frs) = 0 THEN <<>>
    ELSE RemoveEmpty(MergeLoop(frs, 2, <<frs[1]>>))

\* lstrip_fragments without the iteration: one trim of the first fragment and
\* one merge.
lstrip_fragments_once(stripped, ts) ==
    IF Len(stripped) = 0 THEN stripped
    ELSE LET first == stripped[1]
         IN  merge_fragments(
                 <<Fragment(first.type, lstrip(first.content, ts), first.hyperlink)>>
                     \o Tail(stripped))

\* rstrip_fragments without the iteration: one trim of the last fragment and
\* one merge.
rstrip_fragments_once(stripped, ts) ==
    IF Len(stripped) = 0 THEN stripped
    ELSE LET n == Len(stripped)
             last == stripped[n]
         IN  merge_fragments(
                 Append(SubSeq(stripped, 1, n - 1),
                        Fragment(last.type, rstrip(last.content, ts), last.hyperlink)))

RECURSIVE lstrip_fragments(_, _)
lstrip_fragments(stripped, ts) ==
    IF Len(stripped) = 0 THEN stripped
    ELSE LET first == stripped[1]
             new_stripped == merge_fragments(
                 <<Fragment(first.type, lstrip(first.content, ts), first.hyperlink)>>
                     \o Tail(stripped))
         IN  IF Len(stripped) = Len(new_stripped) THEN new_stripped
             ELSE lstrip_fragments(new_stripped, ts)

RECURSIVE rstrip_fragments(_, _)
rstrip_fragments(stripped, ts) ==
    IF Len(stripped) = 0 THEN stripped
    ELSE LET n == Len(stripped)
             last == stripped[n]
             new_stripped == merge_fragments(
                 Append(SubSeq(stripped, 1, n - 1),
                        Fragment(last.type, rstrip(last.content, ts), last.hyperlink)))
         IN  IF Len(stripped) = Len(new_stripped) THEN new_stripped
             ELSE rstrip_fragments(new_stripped, ts)

strip_fragments(frs, ts) == lstrip_fragments(rstrip_fragments(frs, ts), ts)

-----------------------------------------------------------------------------
(* Calls of the fragment algebra on bounded inputs *)

MaxFragments == 3

\* The fragments the input lists are drawn from: both kinds that merge and
\* kinds that do not, empty and blank contents, a hyperlink, and the three
\* phrases merge_fragments looks for.
InputFragments ==
    { Fragment("Text", "", ""),
      Fragment("Text", " ", ""),
      Fragment("Text", "a ", ""),
      Fragment("Text", " ", ""),
      Fragment("Text", "Click ", ""),
      Fragment("Text", "here", ""),
      Fragment("Text", HtmlDocPhrase, ""),
      Fragment("Text", " ", "http://x"),
      Fragment("Code", "", ""),
      Fragment("Code", " a", "") }

\* None (the default: whitespace), " " and "a"
InputStrip == {<<>>, <<" ">>, <<"a">>}

RECURSIVE SeqsUpTo(_, _)
SeqsUpTo(S, n) ==
    IF n = 0 THEN {<<>>}
    ELSE LET shorter == SeqsUpTo(S, n - 1)
         IN  shorter \cup {Append(s, x) : s \in {t \in shorter : Len(t) = n - 1}, x \in S}

InitFragments ==
    /\ mode = "fragments"
    /\ fragments \in SeqsUpTo(InputFragments, MaxFragments)
    /\ prev = <<>>
    /\ to_strip \in InputStrip
    /\ lastOp = "none"
    /\ prevOp = "none"
    /\ HeaderIdle
    /\ ObjIdle
    /\ WalkIdle
    /\ ExtractIdle
    /\ raised = ""

CallMerge ==
    /\ mode = "fragments"
    /\ fragments' = merge_fragments(fragments)
    /\ prev' = fragments
    /\ lastOp' = "merge"
    /\ prevOp' = lastOp
    /\ UNCHANGED <<mode, to_strip, headerVars, raised, objVars, walkVars, extractVars>>

CallLStrip ==
    /\ mode = "fragments"
    /\ fragments' = lstrip_fragments(fragments, to_strip)
    /\ prev' = fragments
    /\ lastOp' = "lstrip"
    /\ prevOp' = lastOp
    /\ UNCHANGED <<mode, to_strip, headerVars, raised, objVars, walkVars, extractVars>>

CallRStrip ==
    /\ mode = "fragments"
    /\ fragments' = rstrip_fragments(fragments, to_strip)
    /\ prev' = fragments
    /\ lastOp' = "rstrip"
    /\ prevOp' = lastOp
    /\ UNCHANGED <<mode, to_strip, headerVars, raised, objVars, walkVars, extractVars>>

CallStrip ==
    /\ mode = "fragments"
    /\ fragments' = strip_fragments(fragments, to_strip)
    /\ prev' = fragments
    /\ lastOp' = "strip"
    /\ prevOp' = lastOp
    /\ UNCHANGED <<mode, to_strip, headerVars, raised, objVars, walkVars, extractVars>>

NextFragments == CallMerge \/ CallLStrip \/ CallRStrip \/ CallStrip

SpecFragments == InitFragments /\ [][NextFragments]_vars

-----------------------------------------------------------------------------
(* The fragment algebra on objects: which Fragment and list objects a call
   creates, changes and returns.  A Fragment object is an index of objs, a
   list is a sequence of such indices.  A call returns [objs, ids, fresh]:
   the objects after the call, the elements of the returned list, and whether
   the returned list is a list the call created (otherwise it is the list it
   was given). *)

\* The fragments a list of objects holds.
Deref(os, ids) == [i \in 1..Len(ids) |-> os[ids[i]]]

RECURSIVE MergeLoop_obj(_, _, _, _)
MergeLoop_obj(os, ids, idx, new_list) ==
    IF idx > Len(ids) THEN [objs |-> os, ids |-> new_list]
    ELSE LET f == os[ids[idx]]
             last == new_list[Len(new_list)]
         IN  IF do_merge(Deref(os, ids), idx, Deref(os, new_list))
             THEN \* new_list[-1].content += f.content
                  MergeLoop_obj([os EXCEPT ![last].content = @ \o f.content],
                                ids, idx + 1, new_list)
             ELSE \* new_list.append(Fragment(f.type, f.content, f.hyperlink))
                  MergeLoop_obj(Append(os, Fragment(f.type, f.content, f.hyperlink)),
                                ids, idx + 1, Append(new_list, Len(os) + 1))

merge_fragments_obj(os, ids) ==
    IF Len(ids) = 0 THEN [objs |-> os, ids |-> <<>>, fresh |-> TRUE]
    ELSE LET f == os[ids[1]]
             first == Append(os, Fragment(f.type, f.content, f.hyperlink))
             merged == MergeLoop_obj(first, ids, 2, <<Len(first)>>)
         IN  [objs |-> merged.objs,
              ids |-> SelectSeq(merged.ids,
                                LAMBDA i : Len(merged.objs[i].content) > 0),
              fresh |-> TRUE]

RECURSIVE lstrip_fragments_obj(_, _, _, _)
lstrip_fragments_obj(os, stripped, fresh, ts) ==
    IF Len(stripped) = 0 THEN [objs |-> os, ids |-> stripped, fresh |-> fresh]
    ELSE LET f == os[stripped[1]]
             os1 == Append(os, Fragment(f.type, lstrip(f.content, ts), f.hyperlink))
             new_stripped == merge_fragments_obj(os1, <<Len(os1)>> \o Tail(stripped))
         IN  IF Len(stripped) = Len(new_stripped.ids) THEN new_stripped
             ELSE lstrip_fragments_obj(new_stripped.objs, new_stripped.ids, TRUE, ts)

RECURSIVE rstrip_fragments_obj(_, _, _, _)
rstrip_fragments_obj(os, stripped, fresh, ts) ==
    IF Len(stripped) = 0 THEN [objs |-> os, ids |-> stripped, fresh |-> fresh]
    ELSE LET n == Len(stripped)
             f == os[stripped[n]]
             os1 == Append(os, Fragment(f.type, rstrip(f.content, ts), f.hyperlink))
             new_stripped ==
                 merge_fragments_obj(os1, Append(SubSeq(stripped, 1, n - 1), Len(os1)))
         IN  IF Len(stripped) = Len(new_stripped.ids) THEN new_stripped
             ELSE rstrip_fragments_obj(new_stripped.objs, new_stripped.ids, TRUE, ts)

strip_fragments_obj(os, ids, ts) ==
    LET r == rstrip_fragments_obj(os, ids, FALSE, ts)
    IN  lstrip_fragments_obj(r.objs, r.ids, r.fresh, ts)

MaxObjFragments == 2

\* The fragments of the input lists: those of the value-level calls, one
\* that ends with a newline (line 263) and two the dd branch rewrites
\* (lines 241 to 243).
ObjInputFragments ==
    InputFragments
        \cup { Fragment("Text", "x\n", ""),
               Fragment("Text", "a  Click", ""),
               Fragment("Text", "\n  " \o HtmlDocPhrase
                                    \o " that is generated by doxygen. \n", "") }

\* The to_strip arguments of the callers: those of the value-level calls and
\* the "\n" of line 264
ObjInputStrip == InputStrip \cup {<<"\n">>}

InitObjects ==
    /\ mode = "objects"
    /\ \E frs \in SeqsUpTo(ObjInputFragments, MaxObjFragments) :
           /\ objs = frs
           /\ lists = << [i \in 1..Len(frs) |-> i] >>
           /\ orig = [objs |-> frs, lists |-> << [i \in 1..Len(frs) |-> i] >>]
    /\ arg = 1
    /\ ret = 0
    /\ edited = FALSE
    /\ to_strip \in ObjInputStrip
    /\ fragments = <<>> /\ prev = <<>> /\ lastOp = "none" /\ prevOp = "none"
    /\ HeaderIdle
    /\ WalkIdle
    /\ ExtractIdle
    /\ raised = ""

\* The caller receives the list a call returned: a new list object when the
\* call created it, the argument itself otherwise.
Returned(op, r) ==
    /\ objs' = r.objs
    /\ lists' = IF r.fresh THEN Append(lists, r.ids) ELSE lists
    /\ ret' = IF r.fresh THEN Len(lists) + 1 ELSE arg
    /\ lastOp' = op
    /\ UNCHANGED <<mode, fragments, prev, to_strip, prevOp, headerVars, raised,
                   arg, orig, edited, walkVars, extractVars>>

ObjMerge ==
    /\ mode = "objects" /\ ret = 0
    /\ Returned("merge", merge_fragments_obj(objs, lists[arg]))

ObjLStrip ==
    /\ mode = "objects" /\ ret = 0
    /\ Returned("lstrip", lstrip_fragments_obj(objs, lists[arg], FALSE, to_strip))

ObjRStrip ==
    /\ mode = "objects" /\ ret = 0
    /\ Returned("rstrip", rstrip_fragments_obj(objs, lists[arg], FALSE, to_strip))

ObjStrip ==
    /\ mode = "objects" /\ ret = 0
    /\ Returned("strip", strip_fragments_obj(objs, lists[arg], to_strip))

-----------------------------------------------------------------------------
(* The markup tree, as parse_recursive reads it.  A node is a record
   [kind, name, attrs, text, contents]: kind is "tag", "str" (a
   NavigableString), "comment" or "none" (Python's None, for a missing
   sibling).  An attribute is <<>> when the tag does not carry it and <<v>>
   when it does; the value of class is a sequence of strings. *)

NoAttrs == [href |-> <<>>, id |-> <<>>, name |-> <<>>, class |-> <<>>, alt |-> <<>>]

None == [kind |-> "none", name |-> "", attrs |-> NoAttrs, text |-> "", contents |-> <<>>]

Str(t) == [kind |-> "str", name |-> "", attrs |-> NoAttrs, text |-> t, contents |-> <<>>]

Comment(t) ==
    [kind |-> "comment", name |-> "", attrs |-> NoAttrs, text |-> t, contents |-> <<>>]

Tag(name, attrs, contents) ==
    [kind |-> "tag", name |-> name, attrs |-> attrs, text |-> "", contents |-> contents]

\* key in tag.attrs
HasAttr(tag, key) == Len(tag.attrs[key]) > 0

\* ' '.join(tag['class'])
RECURSIVE JoinWith(_, _)
JoinWith(strs, sep) ==
    IF Len(strs) = 0 THEN ""
    ELSE IF Len(strs) = 1 THEN strs[1]
    ELSE strs[1] \o sep \o JoinWith(Tail(strs), sep)

JoinedClass(tag) == JoinWith(tag.attrs.class[1], " ")

\* "anchor" in tag["class"]
ClassHas(tag, c) == \E i \in 1..Len(tag.attrs.class[1]) : tag.attrs.class[1][i] = c

\* x == "\n" for a page element x: the comparison of str, which a
\* NavigableString and a Comment are; a tag and None never equal a string.
IsNewline(node) == node.kind \in {"str", "comment"} /\ node.text = "\n"

\* sibs[i].next_sibling and sibs[i].previous_sibling
NextSibling(sibs, i) == IF i < Len(sibs) THEN sibs[i + 1] ELSE None

PreviousSibling(sibs, i) == IF i > 1 THEN sibs[i - 1] ELSE None

\* tag.get_text(): the strings below the node, comments left out
RECURSIVE GetText(_)
RECURSIVE GetTextOfAll(_)
GetText(node) ==
    IF node.kind = "str" THEN node.text
    ELSE IF node.kind = "tag" THEN GetTextOfAll(node.contents)
    ELSE ""

GetTextOfAll(nodes) ==
    IF Len(nodes) = 0 THEN "" ELSE GetText(nodes[1]) \o GetTextOfAll(Tail(nodes))

\* s.replace(old, new) for a non-empty old: the occurrences are replaced
\* from the left, without overlap
RECURSIVE Replace(_, _, _)
Replace(s, old, new) ==
    LET hits == {i \in 1..(Len(s) - Len(old) + 1) :
                     SubSeq(s, i, i + Len(old) - 1) = old}
    IN  IF hits = {} THEN s
        ELSE LET i == CHOOSE h \in hits : \A g \in hits : h <= g
             IN  SubSeq(s, 1, i - 1) \o new
                     \o Replace(SubSeq(s, i + Len(old), Len(s)), old, new)

\* s.split("\n")
RECURSIVE SplitLines(_)
SplitLines(s) ==
    LET nl == Find(s, "\n")
    IN  IF nl = -1 THEN <<s>>
        ELSE <<Slice(s, 0, nl)>> \o SplitLines(Slice(s, nl + 1, Len(s)))

\* c * n for a string c
RECURSIVE Repeat(_, _)
Repeat(c, n) == IF n <= 0 THEN "" ELSE c \o Repeat(c, n - 1)

\* s.ljust(width, " ")
LJust(s, width) == s \o Repeat(" ", width - Len(s))

\* The characters \w of re matches, among the characters up to U+00FF that a
\* string of the model can hold
WordChars ==
    "abcdefghijklmnopqrstuvwxyzABCDEFGHIJKLMNOPQRSTUVWXYZ0123456789_" \o
    "ª²³µ¹º¼½¾ÀÁÂÃÄÅÆÇÈÉÊËÌÍÎÏÐÑÒÓÔÕÖØÙÚÛÜÝÞßàáâãäåæçèéêëìíîïðñòóôõöøùúûüýþÿ"

\* re.sub(r"\b(?<!\\)" + word + r"\b", repl, s) for a word of word characters;
\* before is the character in front of s, "" at the start of the string
RECURSIVE SubWord(_, _, _, _)
SubWord(s, before, word, repl) ==
    LET n == Len(word)
        front(i) == IF i = 1 THEN before ELSE Char(s, i - 1)
        hits == {i \in 1..(Len(s) - n + 1) :
                     /\ SubSeq(s, i, i + n - 1) = word
                     /\ front(i) = "" \/ ~InChars(front(i), WordChars)
                     /\ front(i) # "\\"
                     /\ i + n - 1 = Len(s) \/ ~InChars(Char(s, i + n), WordChars)}
    IN  IF hits = {} THEN s
        ELSE LET i == CHOOSE h \in hits : \A g \in hits : h <= g
             IN  SubSeq(s, 1, i - 1) \o repl
                     \o SubWord(SubSeq(s, i + n, Len(s)), Char(word, n), word, repl)

\* The four substitutions of the "section see" branch
SectionToCommand(s) ==
    SubWord(SubWord(SubWord(SubWord(s, "", "section", "command"),
                            "", "Section", "Command"),
                    "", "sections", "commands"),
            "", "Sections", "Commands")

\* The decorator is the identity (FALSE) or, below a p tag, the removal of
\* every newline (TRUE).
Decorate(in_p, s) == IF in_p THEN Replace(s, "\n", "") ELSE s

\* What a call returns: the fragments, or the exception it raised.
Ok(frs) == [err |-> "", frs |-> frs]

Err(msg) == [err |-> msg, frs |-> <<>>]

-----------------------------------------------------------------------------
(* parse_table *)

\* [x for x in nodes if x != "\n"]
NotNewlines(nodes) == SelectSeq(nodes, LAMBDA x : ~IsNewline(x))

\* The texts of the cells of one row
RowColumns(t) ==
    LET cells == NotNewlines(t.contents)
    IN  [c \in 1..Len(cells) |-> strip(GetText(cells[c]), <<>>)]

\* max(len(row[c]) for row in rows)
ColumnWidth(rows, c) ==
    CHOOSE w \in {Len(rows[r][c]) : r \in 1..Len(rows)} :
        \A r \in 1..Len(rows) : Len(rows[r][c]) <= w

RECURSIVE FormatRow(_, _, _)
FormatRow(row, widths, c) ==
    IF c > Len(row) THEN "\n"
    ELSE LJust(row[c], widths[c])
             \o (IF c # Len(row) THEN "  " ELSE "")
             \o FormatRow(row, widths, c + 1)

RECURSIVE FormatRows(_, _)
FormatRows(rows, widths) ==
    IF Len(rows) = 0 THEN ""
    ELSE "    " \o FormatRow(rows[1], widths, 1) \o FormatRows(Tail(rows), widths)

parse_table(table) ==
    LET table_contents == NotNewlines(table.contents)
    IN  IF Len(table_contents) # 1
        THEN Err("Expected table to contain only a single tag")
        ELSE IF table_contents[1].name # "tbody"
        THEN Err("Expected table to contain 'tbody'")
        ELSE IF Len(table_contents[1].contents) = 0
        THEN Err("IndexError")
        ELSE LET row_tags == NotNewlines(table_contents[1].contents)
                 rows == [r \in 1..Len(row_tags) |-> RowColumns(row_tags[r])]
             IN  IF \E r \in 1..Len(row_tags) : row_tags[r].kind # "tag"
                 THEN Err("AttributeError")
                 ELSE IF Len(rows) = 0
                 THEN Err("IndexError")
                 ELSE IF \E r \in 1..Len(rows) : Len(rows[r]) # Len(rows[1])
                 THEN Err("Table has different number of columns in its rows")
                 ELSE LET column_widths ==
                              [c \in 1..Len(rows[1]) |-> ColumnWidth(rows, c)]
                          separator ==
                              [c \in 1..Len(rows[1]) |-> Repeat("-", column_widths[c])]
                          with_separator ==
                              <<rows[1]>> \o <<separator>> \o Tail(rows)
                      IN  Ok(<<Fragment("Text",
                                        FormatRows(with_separator, column_widths),
                                        "")>>)

-----------------------------------------------------------------------------
(* parse_recursive.  The tag is sibs[i], so that its siblings can be read;
   uls is the number of ul tags among its parents; in_p is the decorator. *)

\* The list bullet of line 260 without its final space: three characters,
\* U+0E42, U+0080 and U+0E02.  U+0080 stands here as it is.  A string of the
\* model holds no character above U+00FF, and U+00BA and U+00AA stand for
\* the two others: like them they are letters (\w matches them) that
\* str.strip() does not remove.
Bullet == "ºª"

\* for f in fragments: raise if f.hyperlink != "", else f.hyperlink = hyperlink
StampHyperlink(frs, hyperlink) ==
    IF \E k \in 1..Len(frs) : frs[k].hyperlink # ""
    THEN Err("Found nested hyperlink")
    ELSE Ok([k \in 1..Len(frs) |-> [frs[k] EXCEPT !.hyperlink = hyperlink]])

\* The checks of the a tag on its attributes, applied to the fragments of its
\* children.
AnchorFragments(tag, frs) ==
    IF HasAttr(tag, "href")
    THEN LET hyperlink == tag.attrs.href[1]
         IN  IF hyperlink = "" THEN Err("Empty hyperlink")
             ELSE IF ~StartsWith(hyperlink, "http")
             THEN Err("Hyperlink does not start with http")
             ELSE StampHyperlink(frs, hyperlink)
    ELSE IF HasAttr(tag, "id") /\ HasAttr(tag, "name") THEN Ok(frs)
    ELSE IF HasAttr(tag, "class") /\ ClassHas(tag, "anchor") /\ HasAttr(tag, "id")
    THEN Ok(frs)
    ELSE Err("Unexpected <a> tag")

\* In case the hyperlink points to a Doxygen command, extract it as such.
AsCommand(frs) ==
    IF Len(frs) = 1 /\ Len(frs[1].content) > 0 /\ Char(frs[1].content, 1) = "\\"
    THEN <<Fragment("Command", frs[1].content, frs[1].hyperlink)>>
    ELSE frs

\* The code example branch (pre, div class fragment, blockquote)
CodeExample(sibs, i) ==
    LET s == strip(GetText(sibs[i]), <<"\n">>)
        split == SplitLines(s)
        lines == [k \in 1..Len(split) |-> "   " \o split[k]]
        concat_lines == JoinWith(lines, "\n") \o "\n\n"
    IN  <<Fragment("Code",
                   IF IsNewline(PreviousSibling(sibs, i)) THEN concat_lines
                   ELSE "\n" \o concat_lines,
                   "")>>

\* The cosmetic fixes of the dd branch on one fragment
FixDd(f) ==
    LET c == IF StartsWith(f.content,
                  "\n  for the corresponding HTML documentation that is generated by doxygen")
             THEN " " \o strip(f.content, <<>>)
             ELSE f.content
    IN  [f EXCEPT !.content = Replace(c, "  Click", "Click")]

\* The newline handling of the li branch, on the fragments with the bullet
ListItemEnd(frs, next) ==
    LET last == frs[Len(frs)].content
    IN  IF Char(last, Len(last)) = "\n"
        THEN LET stripped == rstrip_fragments(frs, <<"\n">>)
             IN  IF next.kind = "none" \/ ~IsNewline(next)
                 THEN Append(stripped, Fragment("Text", "\n", ""))
                 ELSE stripped
        ELSE frs

RECURSIVE parse_recursive(_, _, _, _)
RECURSIVE ParseRange(_, _, _, _, _)
RECURSIVE NoteLines(_, _, _, _)

\* parse_all_children(tag.contents[from - 1:], decorator): from = 1 is
\* tag.children
parse_all_children(tag, from, uls, in_p) ==
    ParseRange(tag.contents, from, Len(tag.contents),
               IF tag.name = "ul" THEN uls + 1 ELSE uls, in_p)

\* The loop of parse_all_children over sibs[lo..hi]; the first exception ends it.
ParseRange(sibs, lo, hi, uls, in_p) ==
    IF lo > hi THEN Ok(<<>>)
    ELSE LET first == parse_recursive(sibs, lo, uls, in_p)
         IN  IF first.err # "" THEN first
             ELSE LET rest == ParseRange(sibs, lo + 1, hi, uls, in_p)
                  IN  IF rest.err # "" THEN rest
                      ELSE Ok(first.frs \o rest.frs)

\* The loop of the note/warning branch for a multiline block: every child
\* after the first that is not "\n" goes on a line of its own.
NoteLines(contents, k, uls, in_p) ==
    IF k > Len(contents) THEN Ok(<<>>)
    ELSE IF IsNewline(contents[k]) THEN NoteLines(contents, k + 1, uls, in_p)
    ELSE LET child == ParseRange(contents, k, k, uls, in_p)
         IN  IF child.err # "" THEN child
             ELSE LET child_fragments == strip_fragments(child.frs, <<>>)
                      rest == NoteLines(contents, k + 1, uls, in_p)
                  IN  IF rest.err # "" THEN rest
                      ELSE IF Len(child_fragments) > 0
                      THEN Ok(<<Fragment("Text", "\n\t", "")>>
                                  \o child_fragments \o rest.frs)
                      ELSE rest

parse_recursive(sibs, i, uls, in_p) ==
    LET tag == sibs[i]
        children == parse_all_children(tag, 1, uls, in_p)
        after_first == parse_all_children(tag, 2, uls, in_p)
    IN
    IF tag.kind = "comment" THEN Ok(<<>>)
    ELSE IF tag.kind = "str"
    THEN Ok(<<Fragment("Text", Decorate(in_p, tag.text), "")>>)
    ELSE IF tag.name = "p"
    THEN LET inner == parse_all_children(tag, 1, uls, TRUE)
             frs == strip_fragments(merge_fragments(inner.frs), <<" ">>)
         IN  IF inner.err # "" THEN inner
             ELSE IF Len(frs) = 0 THEN Ok(frs)
             ELSE IF NextSibling(sibs, i).kind = "none"
             THEN Err("AttributeError: 'NoneType' object has no attribute 'name'")
             ELSE IF NextSibling(sibs, i).name # "ul"
             THEN Ok(Append(frs, Fragment("Text", "\n", "")))
             ELSE Ok(frs)
    ELSE IF tag.name = "code"
    THEN IF children.err # "" THEN children
         ELSE Ok(<<Fragment("Code", JoinContents(children.frs), "")>>)
    ELSE IF tag.name = "em"
    THEN IF children.err # "" THEN children
         ELSE IF \E k \in 1..Len(children.frs) : children.frs[k].type # "Text"
         THEN Err("Expected only text fragments")
         ELSE Ok(<<Fragment("Emphasis", JoinContents(children.frs), "")>>)
    ELSE IF tag.name = "dl" /\ ~HasAttr(tag, "class")
    THEN Err("KeyError: 'class'")
    ELSE IF tag.name = "dl" /\ JoinedClass(tag) = "section see"
    THEN IF Len(tag.contents) # 2
         THEN Err("Expected the 'section see' to always have exactly 2 children.")
         ELSE IF after_first.err # "" THEN after_first
         ELSE LET renamed == [k \in 1..Len(after_first.frs) |->
                                 [after_first.frs[k] EXCEPT
                                      !.content = SectionToCommand(@)]]
                  see_also_fragments == strip_fragments(renamed, <<>>)
              IN  IF Len(see_also_fragments) > 0
                  THEN Ok(<<Fragment("Text", "See also: ", "")>>
                              \o see_also_fragments
                              \o <<Fragment("Text", "\n", "")>>)
                  ELSE Ok(see_also_fragments)
    ELSE IF tag.name = "dl" /\ JoinedClass(tag) \in {"section note", "section warning"}
    THEN LET lead == IF ~IsNewline(PreviousSibling(sibs, i))
                     THEN <<Fragment("Text", "\n", "")>> ELSE <<>>
             label == IF Contains(JoinedClass(tag), "note")
                      THEN <<Fragment("Note", "Note:", "")>>
                      ELSE <<Fragment("Warning", "Warning:", "")>>
             end == <<Fragment("Text", "\n", "")>>
         IN  IF Len(tag.contents) > 2
             THEN LET lines == NoteLines(tag.contents, 2, uls, in_p)
                  IN  IF lines.err # "" THEN lines
                      ELSE Ok(lead \o label \o lines.frs \o end)
             ELSE IF after_first.err # "" THEN after_first
             ELSE LET children_fragments == strip_fragments(after_first.frs, <<>>)
                  IN  IF Len(children_fragments) > 0
                      THEN Ok(lead \o label \o <<Fragment("Text", " ", "")>>
                                  \o children_fragments \o end)
                      ELSE Ok(lead \o label \o end)
    ELSE IF tag.name = "dl" /\ JoinedClass(tag) = "section user"
    THEN IF children.err # "" THEN children
         ELSE Ok(Append(children.frs, Fragment("Text", "\n", "")))
    ELSE IF tag.name = "dt"
    THEN IF children.err # "" THEN children
         ELSE Ok(Append(children.frs, Fragment("Text", " ", "")))
    ELSE IF tag.name = "dd"
    THEN IF children.err # "" THEN children
         ELSE LET merged == merge_fragments(children.frs)
              IN  Ok([k \in 1..Len(merged) |-> FixDd(merged[k])])
    ELSE IF tag.name = "div" /\ ~HasAttr(tag, "class")
    THEN Err("KeyError: 'class'")
    ELSE IF \/ tag.name = "pre"
            \/ tag.name = "div" /\ JoinedClass(tag) = "fragment"
            \/ tag.name = "blockquote"
    THEN Ok(CodeExample(sibs, i))
    ELSE IF tag.name = "li"
    THEN IF children.err # "" THEN children
         ELSE Ok(ListItemEnd(
                     <<Fragment("Text", Repeat("    ", uls) \o Bullet \o " ", "")>>
                         \o lstrip_fragments(children.frs, <<>>),
                     NextSibling(sibs, i)))
    ELSE IF tag.name = "table" THEN parse_table(tag)
    ELSE IF tag.name = "img"
    THEN IF ~HasAttr(tag, "alt") THEN Err("KeyError: 'alt'")
         ELSE IF Contains(tag.attrs.alt[1], "LaTeX")
         THEN Ok(<<Fragment("Text", "LaTeX", "")>>)
         ELSE Err("Unknown image")
    ELSE IF tag.name = "a"
    THEN IF children.err # "" THEN children
         ELSE LET stamped == AnchorFragments(tag, children.frs)
              IN  IF stamped.err # "" THEN stamped
                  ELSE Ok(AsCommand(stamped.frs))
    ELSE IF tag.name = "center" THEN Ok(<<>>)
    ELSE children

-----------------------------------------------------------------------------
(* The edits of parse_recursive on the lists the fragment algebra returns *)

\* What the callers in parse_recursive do in place with the list a call
\* returned.  Each edit follows the call its caller made, with the to_strip
\* the caller passed.

\* The li branch, line 260, on the result of lstrip_fragments(..):
\* fragments.insert(0, Fragment(FragmentType.Text, spaces + bullet + " "))
EditInsert ==
    /\ mode = "objects" /\ ret # 0 /\ ~edited
    /\ lastOp = "lstrip" /\ to_strip = <<>>
    /\ \E nesting_level \in {0, 1} :
           objs' = Append(objs, Fragment("Text",
                                         Repeat("    ", nesting_level)
                                             \o Bullet \o " ", ""))
    /\ lists' = [lists EXCEPT ![ret] = <<Len(objs) + 1>> \o @]
    /\ edited' = TRUE
    /\ UNCHANGED <<mode, fragVars, headerVars, raised, arg, ret, orig, walkVars, extractVars>>

\* The dd branch, lines 240 to 243, on the result of merge_fragments(..):
\* every fragment of the list is assigned its content with the fixes made.
EditContent ==
    /\ mode = "objects" /\ ret # 0 /\ ~edited
    /\ lastOp = "merge"
    /\ objs' = [o \in 1..Len(objs) |->
                   IF \E i \in 1..Len(lists[ret]) : lists[ret][i] = o
                   THEN FixDd(objs[o]) ELSE objs[o]]
    /\ edited' = TRUE
    /\ UNCHANGED <<mode, fragVars, headerVars, raised, lists, arg, ret, orig, walkVars, extractVars>>

\* The dl "section see" branch, lines 193 to 195, on the result of
\* strip_fragments(..): a non-empty list gets "See also: " in front and a
\* newline at its end.
EditSeeAlso ==
    /\ mode = "objects" /\ ret # 0 /\ ~edited
    /\ lastOp = "strip" /\ to_strip = <<>>
    /\ Len(lists[ret]) > 0
    /\ objs' = objs \o <<Fragment("Text", "See also: ", ""),
                          Fragment("Text", "\n", "")>>
    /\ lists' = [lists EXCEPT ![ret] = <<Len(objs) + 1>> \o @ \o <<Len(objs) + 2>>]
    /\ edited' = TRUE
    /\ UNCHANGED <<mode, fragVars, headerVars, raised, arg, ret, orig, walkVars, extractVars>>

\* The p branch, lines 160 to 162, on the result of strip_fragments(.., " "):
\* a non-empty list gets a newline at its end when no list follows the
\* paragraph.
EditParagraph ==
    /\ mode = "objects" /\ ret # 0 /\ ~edited
    /\ lastOp = "strip" /\ to_strip = <<" ">>
    /\ Len(lists[ret]) > 0
    /\ objs' = Append(objs, Fragment("Text", "\n", ""))
    /\ lists' = [lists EXCEPT ![ret] = Append(@, Len(objs) + 1)]
    /\ edited' = TRUE
    /\ UNCHANGED <<mode, fragVars, headerVars, raised, arg, ret, orig, walkVars, extractVars>>

\* The li branch, lines 263 to 266, on the result of
\* rstrip_fragments(.., "\n"), which is called when the last content ends
\* with a newline: the list gets one newline at its end when no newline
\* follows the list item.
EditAppend ==
    /\ mode = "objects" /\ ret # 0 /\ ~edited
    /\ lastOp = "rstrip" /\ to_strip = <<"\n">>
    /\ Len(orig.lists[arg]) > 0
    /\ LET last == orig.objs[orig.lists[arg][Len(orig.lists[arg])]].content
       IN  Len(last) > 0 /\ Char(last, Len(last)) = "\n"
    /\ objs' = Append(objs, Fragment("Text", "\n", ""))
    /\ lists' = [lists EXCEPT ![ret] = Append(@, Len(objs) + 1)]
    /\ edited' = TRUE
    /\ UNCHANGED <<mode, fragVars, headerVars, raised, arg, ret, orig, walkVars, extractVars>>

NextObjects ==
    \/ ObjMerge \/ ObjLStrip \/ ObjRStrip \/ ObjStrip
    \/ EditInsert \/ EditContent \/ EditSeeAlso \/ EditParagraph \/ EditAppend

SpecObjects == InitObjects /\ [][NextObjects]_vars

-----------------------------------------------------------------------------
(* Calls of parse_recursive on bounded trees *)

MaxDepth == 3

Href(target) == [NoAttrs EXCEPT !.href = <<target>>]

\* The tags the trees are nested from: two hyperlinks, an anchor without a
\* link target, and the categories a hyperlink can be nested through.
Wrappers ==
    { [name |-> "a", attrs |-> Href("http://o")],
      [name |-> "a", attrs |-> Href("http://i")],
      [name |-> "a", attrs |-> [NoAttrs EXCEPT !.id = <<"x">>, !.name = <<"x">>]],
      [name |-> "code", attrs |-> NoAttrs],
      [name |-> "em", attrs |-> NoAttrs],
      [name |-> "pre", attrs |-> NoAttrs],
      [name |-> "span", attrs |-> NoAttrs] }

Leaves == {Str("x"), Str("\\ref")}

\* The trees of exactly the given depth: a chain of wrappers around a leaf
\* or around nothing.
RECURSIVE TreesOfDepth(_)
TreesOfDepth(d) ==
    IF d = 0 THEN Leaves
    ELSE {Tag(w.name, w.attrs, <<t>>) : w \in Wrappers, t \in TreesOfDepth(d - 1)}
         \cup (IF d = 1 THEN {Tag(w.name, w.attrs, <<>>) : w \in Wrappers} ELSE {})

InputTrees == UNION {TreesOfDepth(d) : d \in 0..MaxDepth}

\* The tags the block trees are nested from: the two forms of an anchor
\* without a link target, a paragraph, a code span, a dl and a div without a
\* class and a div with a class that no branch names.
BlockWrappers ==
    { [name |-> "a", attrs |-> [NoAttrs EXCEPT !.id = <<"x">>, !.name = <<"x">>]],
      [name |-> "a", attrs |-> [NoAttrs EXCEPT !.class = << <<"anchor">> >>,
                                               !.id = <<"x">>]],
      [name |-> "p", attrs |-> NoAttrs],
      [name |-> "code", attrs |-> NoAttrs],
      [name |-> "dl", attrs |-> NoAttrs],
      [name |-> "div", attrs |-> NoAttrs],
      [name |-> "div", attrs |-> [NoAttrs EXCEPT !.class = << <<"el">> >>]] }

BlockLeaves == {Str("x"), Str("\\ref"), Str(" a\nb ")}

RECURSIVE BlockTreesOfDepth(_)
BlockTreesOfDepth(d) ==
    IF d = 0 THEN BlockLeaves
    ELSE {Tag(w.name, w.attrs, <<t>>) : w \in BlockWrappers,
                                        t \in BlockTreesOfDepth(d - 1)}
         \cup (IF d = 1 THEN {Tag(w.name, w.attrs, <<>>) : w \in BlockWrappers}
               ELSE {})

InputBlockTrees == UNION {BlockTreesOfDepth(d) : d \in 0..MaxDepth}

\* What follows a block tree among its siblings: nothing, a newline or a list
Afters == {<<>>, <<Str("\n")>>, <<Tag("ul", NoAttrs, <<>>)>>}

\* The sibling lists the walker is called in, on their first node
InputSiblings ==
    {<<t, Str("\n")>> : t \in InputTrees}
        \cup {<<t>> \o after : t \in InputBlockTrees, after \in Afters}

InitWalker ==
    /\ mode = "walker"
    /\ tree \in InputSiblings
    /\ pos = 1
    /\ walk = NotWalked
    /\ FragIdle
    /\ HeaderIdle
    /\ ObjIdle
    /\ ExtractIdle
    /\ raised = ""

\* parse_recursive(tag, lambda x: x)
Walk ==
    /\ mode = "walker"
    /\ ~walk.done
    /\ walk' = [done |-> TRUE, result |-> parse_recursive(tree, pos, 0, FALSE)]
    /\ UNCHANGED <<mode, tree, pos, fragVars, headerVars, objVars, raised, extractVars>>

NextWalker == Walk

SpecWalker == InitWalker /\ [][NextWalker]_vars

-----------------------------------------------------------------------------
(* split_command_header and ParsedCommand.__init__ *)

\* split_command_header with the space kept at the start of the parameters.
split_command_header_keep_space(h) ==
    LET found_space == Find(h, " ")
        space_pos == IF found_space = -1 THEN Len(h) ELSE found_space
        found_bracket == Find(h, "[")
        square_bracket_pos ==
            IF found_bracket = -1 \/ h = "\\f[" THEN Len(h) ELSE found_bracket
        cmd_end_pos == Min(square_bracket_pos, space_pos)
    IN  <<Slice(h, 1, cmd_end_pos), Slice(h, cmd_end_pos, Len(h))>>

\* Returns <<command, parameters>>. Positions are 0-based as in the source.
split_command_header(h) ==
    LET found_space == Find(h, " ")
        space_pos == IF found_space = -1 THEN Len(h) ELSE found_space
        found_bracket == Find(h, "[")
        square_bracket_pos ==
            IF found_bracket = -1 \/ h = "\\f[" THEN Len(h) ELSE found_bracket
        cmd_end_pos ==
            IF square_bracket_pos < space_pos THEN square_bracket_pos ELSE space_pos
        param_start_pos ==
            IF square_bracket_pos < space_pos THEN square_bracket_pos
            ELSE Min(space_pos + 1, Len(h))
    IN  <<Slice(h, 1, cmd_end_pos), Slice(h, param_start_pos, Len(h))>>

\* The exception ParsedCommand.__init__ raises for a header, "" when none.
HeaderError(h) ==
    IF Len(h) = 0 THEN "AssertionError"
    ELSE IF Char(h, 1) # "\\" THEN "Header does not start with '\\'"
    ELSE ""

MaxHeaderLen == 4

HeaderChars == {"\\", "f", " ", "["}

RECURSIVE StringsOfLen(_, _)
StringsOfLen(chars, n) ==
    IF n = 0 THEN {""}
    ELSE {s \o c : s \in StringsOfLen(chars, n - 1), c \in chars}

InputHeaders == UNION {StringsOfLen(HeaderChars, n) : n \in 1..MaxHeaderLen}

InitHeader ==
    /\ mode = "header"
    /\ header \in InputHeaders
    /\ command = "" /\ parameters = ""
    /\ raised = ""
    /\ FragIdle
    /\ ObjIdle
    /\ WalkIdle
    /\ ExtractIdle

\* ParsedCommand.__init__, as far as the header is concerned.
NewParsedCommand ==
    /\ mode = "header"
    /\ raised = ""
    /\ IF HeaderError(header) # ""
       THEN /\ raised' = HeaderError(header)
            /\ mode' = "header raised"
            /\ UNCHANGED <<command, parameters>>
       ELSE /\ command' = split_command_header(header)[1]
            /\ parameters' = split_command_header(header)[2]
            /\ mode' = "header done"
            /\ UNCHANGED raised
    /\ UNCHANGED <<header, fragVars, objVars, walkVars, extractVars>>

NextHeader == NewParsedCommand

SpecHeader == InitHeader /\ [][NextHeader]_vars

-----------------------------------------------------------------------------
(* parse_doxygen_help_html and parse_html_tags_of_single_command *)

\* escape_characters
escape_characters(raw_string) ==
    Replace(Replace(Replace(Replace(raw_string, "\\", "\\\\"), "\"", "\\\""),
                    "\r", ""),
            "\n", "\\n")

NoCommand ==
    [raw_header |-> "", help_text |-> <<>>, anchor |-> "", command |-> "",
     parameters |-> "", escaped_command |-> "", escaped_parameters |-> "",
     escaped_help_text |-> <<>>]

\* ParsedCommand(header, anchor, help_text): [err, cmd]
ParsedCommand(header_text, anchor, help_text) ==
    IF HeaderError(header_text) # ""
    THEN [err |-> HeaderError(header_text), cmd |-> NoCommand]
    ELSE LET split == split_command_header(header_text)
         IN  [err |-> "",
              cmd |-> [raw_header |-> header_text,
                       help_text |-> help_text,
                       anchor |-> anchor,
                       command |-> split[1],
                       parameters |-> split[2],
                       escaped_command |-> escape_characters(split[1]),
                       escaped_parameters |-> escape_characters(split[2]),
                       escaped_help_text |->
                           [k \in 1..Len(help_text) |->
                               Fragment(help_text[k].type,
                                        escape_characters(help_text[k].content),
                                        help_text[k].hyperlink)]]]

\* The removal of "Go to the next section or return to the index." from the
\* stripped description: the loop can only hit at idx = len - 5.
RemoveNavTail(description_text) ==
    LET n == Len(description_text)
    IN  IF /\ n >= 5
           /\ Contains(description_text[n - 4].content, "Go to the")
           /\ Contains(description_text[n - 3].content, "next")
           /\ Contains(description_text[n - 2].content, "section or return to the")
        THEN [k \in 1..(n - 4) |->
                 IF k = n - 4
                 THEN [description_text[k] EXCEPT
                          !.content = rstrip(Replace(@, "Go to the", ""), <<>>)]
                 ELSE description_text[k]]
        ELSE description_text

\* The exception of the check of header_tag.contents[0], "" when none
AnchorError(header_tag) ==
    IF Len(header_tag.contents) = 0 THEN "IndexError"
    ELSE LET anchor_tag == header_tag.contents[1]
         IN  IF anchor_tag.name # "a" THEN "First child is not an anchor."
             ELSE IF ~HasAttr(anchor_tag, "class") THEN "KeyError: 'class'"
             ELSE IF ~ClassHas(anchor_tag, "anchor") \/ ~HasAttr(anchor_tag, "id")
             THEN "First child is not an anchor."
             ELSE ""

\* parse_html_tags_of_single_command(sibs[h], sibs[lo..hi]): [err, cmd]
parse_html_tags_of_single_command(sibs, h, lo, hi, uls) ==
    LET body == ParseRange(sibs, lo, hi, uls, FALSE)
    IN  IF body.err # "" THEN [err |-> body.err, cmd |-> NoCommand]
        ELSE IF AnchorError(sibs[h]) # ""
        THEN [err |-> AnchorError(sibs[h]), cmd |-> NoCommand]
        ELSE ParsedCommand(strip(GetText(sibs[h]), <<>>),
                           strip(sibs[h].contents[1].attrs.id[1], <<>>),
                           RemoveNavTail(strip_fragments(body.frs, <<>>)))

NotFound == [found |-> FALSE, sibs |-> <<>>, idx |-> 0, uls |-> 0]

\* soup.find("center"): the first center tag in document order from
\* nodes[k] on, with its siblings, its index among them and the number of
\* ul tags above it
RECURSIVE FirstCenterIn(_, _, _)
FirstCenterIn(nodes, k, uls) ==
    IF k > Len(nodes) THEN NotFound
    ELSE IF nodes[k].kind = "tag" /\ nodes[k].name = "center"
    THEN [found |-> TRUE, sibs |-> nodes, idx |-> k, uls |-> uls]
    ELSE LET below ==
                 IF nodes[k].kind = "tag"
                 THEN FirstCenterIn(nodes[k].contents, 1,
                                    IF nodes[k].name = "ul" THEN uls + 1 ELSE uls)
                 ELSE NotFound
         IN  IF below.found THEN below ELSE FirstCenterIn(nodes, k + 1, uls)

\* sibs[i].find_next_sibling(name): the index of the tag found, 0 for None
RECURSIVE find_next_sibling(_, _, _)
find_next_sibling(sibs, i, name) ==
    IF i >= Len(sibs) THEN 0
    ELSE IF sibs[i + 1].kind = "tag" /\ sibs[i + 1].name = name THEN i + 1
    ELSE find_next_sibling(sibs, i + 1, name)

\* The inner loop with every tag taken for the start of the next command.
DescriptionEnd_at_any_tag(sibs, from) ==
    IF \E k \in from..Len(sibs) : sibs[k].kind = "tag"
    THEN CHOOSE k \in from..Len(sibs) :
             /\ sibs[k].kind = "tag"
             /\ \A j \in from..(k - 1) : sibs[j].kind # "tag"
    ELSE Len(sibs) + 1

\* The inner loop: the index at which tag stops, Len(sibs) + 1 for None
RECURSIVE DescriptionEnd(_, _)
DescriptionEnd(sibs, from) ==
    IF from > Len(sibs) THEN from
    ELSE IF sibs[from].name = "h1" THEN from
    ELSE DescriptionEnd(sibs, from + 1)

\* A failed command is never appended and never ends the scan.
Propagate_skip(parsed, commands) ==
    IF parsed.err # ""
    THEN [pc |-> "loop", raised |-> "", commands |-> commands]
    ELSE [pc |-> "loop", raised |-> "", commands |-> Append(commands, parsed.cmd)]

\* parsed = parse_html_tags_of_single_command(...); append(parsed): an
\* exception leaves parse_doxygen_help_html
Propagate(parsed, commands) ==
    IF parsed.err # ""
    THEN [pc |-> "raised", raised |-> parsed.err, commands |-> commands]
    ELSE [pc |-> "loop", raised |-> "", commands |-> Append(commands, parsed.cmd)]

MaxDocNodes == 4

Anchor(id) ==
    Tag("a", [NoAttrs EXCEPT !.class = << <<"anchor">> >>, !.id = <<id>>], <<>>)

Heading(id, text) == Tag("h1", NoAttrs, <<Anchor(id), Str(text)>>)

Cell(text) == Tag("td", NoAttrs, <<Str(text)>>)

Row(cells) == Tag("tr", NoAttrs, cells)

Table(rows) == Tag("table", NoAttrs, <<Tag("tbody", NoAttrs, rows)>>)

Center == Tag("center", NoAttrs, <<Str("Commands")>>)

NavParagraph ==
    Tag("p", NoAttrs,
        <<Str("Go to the "),
          Tag("a", Href("http://n"), <<Str("next")>>),
          Str(" section or return to the "),
          Tag("a", Href("http://i"), <<Str("index")>>),
          Str(".")>>)

\* The nodes that make the conversion of their command fail: a table with
\* a short row, without rows and without a body section, a heading without
\* the backslash, without an anchor and with an anchor without class, a
\* hyperlink that is not http and an image that is not the LaTeX logo
BadNodes ==
    {Table(<<Row(<<Cell("a"), Cell("b")>>), Row(<<Cell("c")>>)>>),
     Table(<<>>),
     Tag("table", NoAttrs, <<>>),
     Heading("cmdx", "x y"),
     Tag("h1", NoAttrs, <<Str("\\c")>>),
     Tag("h1", NoAttrs, <<Tag("a", [NoAttrs EXCEPT !.id = <<"cmdc">>], <<>>),
                          Str("\\c")>>),
     Tag("a", Href("ftp://x"), <<Str("x")>>),
     Tag("img", [NoAttrs EXCEPT !.alt = <<"logo">>], <<>>)}

DocSymbols == {"Ha", "Hb", "NL", "P", "NAV", "BAD"}

NodeOf(symbol, bad) ==
    CASE symbol = "Ha" -> Heading("cmda", "\\a <word>")
      [] symbol = "Hb" -> Heading("cmdb", " \\b[x] y\n")
      [] symbol = "NL" -> Str("\n")
      [] symbol = "P" -> Tag("p", NoAttrs, <<Str("Some\ntext.")>>)
      [] symbol = "NAV" -> NavParagraph
      [] symbol = "BAD" -> bad

\* The node sequences of up to n nodes; the failing nodes of one sequence
\* are all the same node
Bodies(n) ==
    {[k \in 1..Len(shape) |-> NodeOf(shape[k], bad)] :
         shape \in SeqsUpTo(DocSymbols, n), bad \in BadNodes}

\* The documents: a center tag followed by up to MaxDocNodes nodes; the same
\* with one node less below a body tag, after a heading that the scan must
\* not see; and two documents without a center tag.
InputDocs ==
    {<<Center>> \o b : b \in Bodies(MaxDocNodes)}
        \cup {<<Str("\n"),
                Tag("body", NoAttrs,
                    <<Heading("cmdp", "\\p"), Center>> \o b)>> :
                   b \in Bodies(MaxDocNodes - 1)}
        \cup {<<>>, <<Heading("cmda", "\\a"), Str("x")>>}

InitExtract ==
    /\ mode = "extract"
    /\ doc \in InputDocs
    /\ run = NoRun
    /\ tagIdx = 0
    /\ all_parsed_commands = <<>>
    /\ returned = <<>>
    /\ pc = "find"
    /\ raised = ""
    /\ FragIdle
    /\ HeaderIdle
    /\ ObjIdle
    /\ WalkIdle

\* tag = soup.find("center"); tag = tag.find_next_sibling("h1")
FindFirstHeader ==
    /\ pc = "find"
    /\ LET center == FirstCenterIn(doc, 1, 0)
       IN  IF ~center.found
           THEN /\ pc' = "raised"
                /\ raised' = "AttributeError: 'NoneType' object has no attribute 'find_next_sibling'"
                /\ UNCHANGED <<run, tagIdx>>
           ELSE /\ run' = [sibs |-> center.sibs, uls |-> center.uls]
                /\ tagIdx' = find_next_sibling(center.sibs, center.idx, "h1")
                /\ pc' = "loop"
                /\ UNCHANGED raised
    /\ UNCHANGED <<mode, doc, all_parsed_commands, returned,
                   fragVars, headerVars, objVars, walkVars>>

\* One pass of the outer loop: the description tags are collected up to the
\* next h1 and the command is parsed and appended.
ParseCommand ==
    /\ pc = "loop"
    /\ tagIdx # 0
    /\ \E end \in {DescriptionEnd(run.sibs, tagIdx + 1)} :
       \E after \in {Propagate(parse_html_tags_of_single_command(
                                   run.sibs, tagIdx, tagIdx + 1, end - 1, run.uls),
                               all_parsed_commands)} :
           /\ tagIdx' = IF end > Len(run.sibs) THEN 0 ELSE end
           /\ pc' = after.pc
           /\ raised' = after.raised
           /\ all_parsed_commands' = after.commands
    /\ UNCHANGED <<mode, doc, run, returned, fragVars, headerVars, objVars, walkVars>>

\* return all_parsed_commands
ReturnCommands ==
    /\ pc = "loop"
    /\ tagIdx = 0
    /\ returned' = <<all_parsed_commands>>
    /\ pc' = "done"
    /\ UNCHANGED <<mode, doc, run, tagIdx, all_parsed_commands, raised,
                   fragVars, headerVars, objVars, walkVars>>

NextExtract == FindFirstHeader \/ ParseCommand \/ ReturnCommands

SpecExtract == InitExtract /\ [][NextExtract]_vars

-----------------------------------------------------------------------------
(* Properties of the fragment algebra *)

\* C1: merge_fragments is idempotent: merging the result of a merge returns
\* that result, fragment by fragment.
C1_MergeIdempotent ==
    (lastOp = "merge" /\ prevOp = "merge") => fragments = prev

\* A boundary between two fragments of a merged list at which one of the two
\* phrase conditions of do_merge can have kept them apart.
PhraseBoundary(frs, i) ==
    \/ Contains(frs[i + 1].content, "Click ")
    \/ Contains(frs[i].content, HtmlDocPhrase)

\* C2: the result of merge_fragments has no fragment with empty content and
\* no two adjacent fragments of the same type and hyperlink, except at a
\* boundary kept by the "Click here for the corresponding HTML documentation"
\* conditions.
C2_MergedNormalForm ==
    lastOp = "merge" =>
        /\ \A i \in 1..Len(fragments) : fragments[i].content # ""
        /\ \A i \in 1..(Len(fragments) - 1) :
               ( /\ fragments[i].type = fragments[i + 1].type
                 /\ fragments[i].hyperlink = fragments[i + 1].hyperlink )
                   => PhraseBoundary(fragments, i)

\* C3: strip_fragments, lstrip_fragments and rstrip_fragments are idempotent
\* for every strip argument: a second call with the same argument returns
\* the list the first call returned.
C3_StripIdempotent ==
    (lastOp \in {"strip", "lstrip", "rstrip"} /\ prevOp = lastOp)
        => fragments = prev

\* C3 witness: strip_fragments called twice on a list from which the first
\* call left fragments of two kinds.
C3_Witness ==
    /\ lastOp = "strip" /\ prevOp = "strip"
    /\ Len(fragments) >= 2
    /\ fragments[1].type # fragments[2].type

\* C4: the contents of strip_fragments(s, cs), joined, are the joined
\* contents of s with the characters of cs trimmed from both ends; a
\* non-empty result neither starts nor ends with a character of cs.
C4_StripTrimsJoinedText ==
    lastOp = "strip" =>
        /\ JoinContents(fragments) = strip(JoinContents(prev), to_strip)
        /\ Len(fragments) > 0 =>
               LET first == fragments[1].content
                   last == fragments[Len(fragments)].content
                   cs == StripChars(to_strip)
               IN  /\ first # "" /\ last # ""
                   /\ ~InChars(Char(first, 1), cs)
                   /\ ~InChars(Char(last, Len(last)), cs)

\* C4 witness: strip_fragments has removed a whole leading blank fragment
\* and trimmed the end of the last one, leaving more than one fragment.
C4_Witness ==
    /\ lastOp = "strip"
    /\ Len(prev) = 3 /\ Len(fragments) = 2
    /\ strip(prev[1].content, to_strip) = "" /\ prev[1].content # ""
    /\ prev[3].content # fragments[2].content

-----------------------------------------------------------------------------
(* Properties of the fragment algebra on objects *)

\* The list object arg and its Fragment objects are as they were before the
\* call.
InputUnchanged ==
    /\ lists[arg] = orig.lists[arg]
    /\ \A i \in 1..Len(orig.lists[arg]) :
           objs[orig.lists[arg][i]] = orig.objs[orig.lists[arg][i]]

\* The returned list is another object than the argument and holds none of
\* the argument's Fragment objects.
ResultNotShared ==
    /\ ret # arg
    /\ \A i \in 1..Len(lists[ret]) : \A j \in 1..Len(orig.lists[arg]) :
           lists[ret][i] # orig.lists[arg][j]

\* The object-level functions return the fragments the value-level ones do.
ObjAgreesWithValues ==
    (mode = "objects" /\ ret # 0 /\ ~edited) =>
        LET in == Deref(orig.objs, orig.lists[arg])
            out == Deref(objs, lists[ret])
        IN  out = CASE lastOp = "merge" -> merge_fragments(in)
                    [] lastOp = "lstrip" -> lstrip_fragments(in, to_strip)
                    [] lastOp = "rstrip" -> rstrip_fragments(in, to_strip)
                    [] lastOp = "strip" -> strip_fragments(in, to_strip)

\* C10: merge_fragments, lstrip_fragments, rstrip_fragments and
\* strip_fragments leave their input list and its fragments unchanged and
\* return a new list that shares no fragment with the input, so that edits
\* of the result in place leave the input as it was.
C10_InputUntouchedResultNew ==
    (mode = "objects" /\ ret # 0) => (InputUnchanged /\ ResultNotShared)

\* C10, the part that is about what the caller can observe: after a call and
\* an edit of its result in place, the input is as it was before the call.
C10_EditsLeaveInputUnchanged ==
    (mode = "objects" /\ ret # 0 /\ edited) => InputUnchanged

-----------------------------------------------------------------------------
(* Properties of the header splitter *)

\* The 1-based positions of character ch in h.
Positions(h, ch) == {i \in 1..Len(h) : Char(h, i) = ch}

\* The least element of a non-empty set of numbers.
Least(S) == CHOOSE i \in S : \A j \in S : i <= j

\* C7: for a header that starts with the escape character, the boundary is
\* the earlier of the first space and the first "[": a space is consumed, a
\* bracket stays in the parameters, with neither the parameters are empty,
\* and the header "\f[" gives ("f[", "").
C7_HeaderSplit ==
    mode = "header done" =>
        LET spaces == Positions(header, " ")
            brackets == Positions(header, "[")
        IN  IF header = "\\f["
            THEN command = "f[" /\ parameters = ""
            ELSE IF spaces # {} /\ (brackets = {} \/ Least(spaces) < Least(brackets))
            THEN /\ "\\" \o command \o " " \o parameters = header
                 /\ Len(command) = Least(spaces) - 2
            ELSE IF brackets # {}
            THEN /\ "\\" \o command \o parameters = header
                 /\ Len(command) = Least(brackets) - 2
                 /\ Char(parameters, 1) = "["
            ELSE /\ "\\" \o command = header
                 /\ parameters = ""

\* C7 witness: a header split at a space that comes before a bracket.
C7_Witness ==
    /\ mode = "header done"
    /\ header = "\\f [" /\ command = "f" /\ parameters = "["

-----------------------------------------------------------------------------
(* Properties of the walker *)

IsLink(node) == node.kind = "tag" /\ node.name = "a" /\ HasAttr(node, "href")

\* A hyperlink with text in it and with a link target other than the given
\* one, somewhere below the node
RECURSIVE HasOtherLinkBelow(_, _)
HasOtherLinkBelow(node, target) ==
    \E k \in 1..Len(node.contents) :
        \/ /\ IsLink(node.contents[k])
           /\ node.contents[k].attrs.href[1] # target
           /\ GetText(node.contents[k]) # ""
        \/ HasOtherLinkBelow(node.contents[k], target)

\* C6: a hyperlink with a link target that contains another hyperlink with a
\* link target, at any depth and through any tags, makes the walker fail
\* with the nested hyperlink error; it returns no fragments in which the
\* inner link target is dropped or overwritten.  Stated for an inner
\* hyperlink that holds text and has another link target than the outer one.
C6_NestedLinkAlwaysFails ==
    ( /\ mode = "walker" /\ walk.done
      /\ IsLink(tree[pos])
      /\ HasOtherLinkBelow(tree[pos], tree[pos].attrs.href[1]) )
        => walk.result.err = "Found nested hyperlink"

-----------------------------------------------------------------------------
(* Properties of the extractor *)

\* The commands the extractor has handed to its caller
ReturnedCommands == IF returned = <<>> THEN <<>> ELSE returned[1]

\* C5: every fragment of the help_text of every returned command has
\* non-empty content, also where the navigation tail was removed.
C5_NoEmptyContentReturned ==
    \A c \in 1..Len(ReturnedCommands) :
        \A k \in 1..Len(ReturnedCommands[c].help_text) :
            ReturnedCommands[c].help_text[k].content # ""

\* The siblings of the first center tag and its place among them
ScannedRun == FirstCenterIn(doc, 1, 0)

IsHeading(node) == node.kind = "tag" /\ node.name = "h1"

\* The places of the heading nodes after the center tag, in the scanned run
Headings ==
    {k \in (ScannedRun.idx + 1)..Len(ScannedRun.sibs) : IsHeading(ScannedRun.sibs[k])}

\* The place of the last node before the next heading or the end of the run
SpanEnd(h) == Least({k \in Headings : k > h} \cup {Len(ScannedRun.sibs) + 1}) - 1

\* The headings the scan has passed: all of them once tag is None
Scanned == IF tagIdx = 0 THEN Headings ELSE {k \in Headings : k < tagIdx}

\* The rank of a heading among the headings, in document order
Rank(h) == Cardinality({k \in Headings : k <= h})

\* The fragments of the nodes lo..hi of the scanned run, each node converted
\* on its own and the results concatenated in order, then stripped and the
\* navigation tail removed
RECURSIVE FragmentsOfNodes(_, _)
FragmentsOfNodes(lo, hi) ==
    IF lo > hi THEN <<>>
    ELSE parse_recursive(ScannedRun.sibs, lo, ScannedRun.uls, FALSE).frs
             \o FragmentsOfNodes(lo + 1, hi)

BodyOfSpan(h) == RemoveNavTail(strip_fragments(FragmentsOfNodes(h + 1, SpanEnd(h)), <<>>))

\* C8: while the scan runs and when it has returned, there is exactly one
\* command per heading passed, in document order, the k-th with the text and
\* the anchor of the k-th heading and with the body made of exactly the
\* nodes between that heading and the next one or the end of the run; the
\* list returned is that of all headings.
C8_OneCommandPerHeading ==
    (pc \in {"loop", "done"}) =>
        /\ Len(all_parsed_commands) = Cardinality(Scanned)
        /\ \A h \in Scanned :
               LET cmd == all_parsed_commands[Rank(h)]
               IN  /\ cmd.raw_header = strip(GetText(ScannedRun.sibs[h]), <<>>)
                   /\ cmd.anchor = ScannedRun.sibs[h].contents[1].attrs.id[1]
                   /\ cmd.help_text = BodyOfSpan(h)
        /\ (pc = "done" =>
               /\ returned = <<all_parsed_commands>>
               /\ Len(returned[1]) = Cardinality(Headings))

\* C8 witness: two commands returned, the first with the paragraph between
\* the two headings as its body, the second with nothing but a newline after
\* its heading and so with an empty body.
C8_Witness ==
    /\ pc = "done"
    /\ Len(ReturnedCommands) = 2
    /\ ReturnedCommands[1].raw_header = "\\b[x] y"
    /\ ReturnedCommands[1].help_text = <<Fragment("Text", "Sometext.", "")>>
    /\ ReturnedCommands[2].raw_header = "\\a <word>"
    /\ ReturnedCommands[2].help_text = <<>>

\* A table without exactly one body section, without rows or with a row
\* whose number of cells differs from that of the first row
MalformedTable(node) ==
    /\ node.kind = "tag" /\ node.name = "table"
    /\ LET sections == SelectSeq(node.contents, LAMBDA x : x.name = "tbody")
       IN  \/ Len(sections) # 1
           \/ LET rows == SelectSeq(sections[1].contents, LAMBDA x : x.name = "tr")
                  Cells(r) == Len(SelectSeq(rows[r].contents, LAMBDA x : x.name = "td"))
              IN  \/ Len(rows) = 0
                  \/ \E r \in 1..Len(rows) : Cells(r) # Cells(1)

\* A hyperlink whose link target is empty or not http
InvalidHyperlink(node) ==
    /\ node.kind = "tag" /\ node.name = "a" /\ HasAttr(node, "href")
    /\ \/ node.attrs.href[1] = ""
       \/ Len(node.attrs.href[1]) < 4
       \/ SubSeq(node.attrs.href[1], 1, 4) # "http"

\* An image other than the LaTeX logo
UnrecognizedImage(node) ==
    /\ node.kind = "tag" /\ node.name = "img"
    /\ \/ ~HasAttr(node, "alt")
       \/ \A i \in 1..Len(node.attrs.alt[1]) :
              i + 4 > Len(node.attrs.alt[1])
                  \/ SubSeq(node.attrs.alt[1], i, i + 4) # "LaTeX"

\* A heading whose text does not start with the backslash, or whose first
\* child is not an anchor with the class anchor and an id
MalformedHeading(node) ==
    \/ Len(node.contents) = 0
    \/ LET first == node.contents[1]
       IN  \/ first.kind # "tag" \/ first.name # "a"
           \/ first.attrs.class = <<>> \/ first.attrs.id = <<>>
           \/ \A i \in 1..Len(first.attrs.class[1]) : first.attrs.class[1][i] # "anchor"
    \/ LET text == GetText(node)
           black == {i \in 1..Len(text) : SubSeq(text, i, i) \notin {" ", "\n", "\t"}}
       IN  black = {} \/ SubSeq(text, Least(black), Least(black)) # "\\"

\* The command of the heading at h has a malformed heading or a malformed
\* node among the nodes of its span
MalformedCommand(h) ==
    \/ MalformedHeading(ScannedRun.sibs[h])
    \/ \E k \in (h + 1)..SpanEnd(h) :
           \/ MalformedTable(ScannedRun.sibs[k])
           \/ InvalidHyperlink(ScannedRun.sibs[k])
           \/ UnrecognizedImage(ScannedRun.sibs[k])

\* C9: the scan never gets past a malformed command and nothing is ever
\* returned for a document that has one; an extraction that has raised has
\* returned nothing, keeps its error and takes no further step.
C9_FailFast ==
    /\ pc = "raised" =>
           /\ raised # ""
           /\ returned = <<>>
           /\ ~ENABLED NextExtract
    /\ pc \in {"loop", "done"} =>
           \A h \in Headings :
               MalformedCommand(h) =>
                   /\ pc = "loop" /\ tagIdx # 0 /\ tagIdx <= h
                   /\ returned = <<>>

\* C9 witness: the extraction has raised on the table with a short row in
\* the second command, after the first command was parsed.
C9_Witness ==
    /\ pc = "raised"
    /\ raised = "Table has different number of columns in its rows"
    /\ Len(all_parsed_commands) = 1
    /\ returned = <<>>

-----------------------------------------------------------------------------
(* Properties of the walker on anchors without a link target, on tags that
   no branch names and on paragraphs *)

\* An a tag without a link target that has an id and a name, or the class
\* anchor and an id
IsCrossReferenceAnchor(node) ==
    /\ node.kind = "tag" /\ node.name = "a"
    /\ node.attrs.href = <<>>
    /\ node.attrs.id # <<>>
    /\ \/ node.attrs.name # <<>>
       \/ /\ node.attrs.class # <<>>
          /\ \E k \in 1..Len(node.attrs.class[1]) : node.attrs.class[1][k] = "anchor"

\* C11: an anchor without a link target that has an id and a name, or the
\* class anchor and an id, gives no fragments, whatever its children are; so
\* it never gives a Command fragment with an empty hyperlink.
C11_AnchorGivesNoFragments ==
    (mode = "walker" /\ walk.done /\ IsCrossReferenceAnchor(tree[pos]))
        => walk.result.frs = <<>>

\* The tags that a branch of the walker names: by the tag name, and for a dl
\* and a div also by the class
IsRecognized(node) ==
    \/ node.name \in {"p", "code", "em", "dt", "dd", "pre", "blockquote", "li",
                      "table", "img", "a", "center"}
    \/ /\ node.name = "dl"
       /\ node.attrs.class \in {<< <<"section", "see">> >>, << <<"section", "note">> >>,
                                << <<"section", "warning">> >>,
                                << <<"section", "user">> >>}
    \/ node.name = "div" /\ node.attrs.class = << <<"fragment">> >>

\* C12: a tag that no branch names, a dl or div without a class or with
\* another class included, gives exactly the fragments of its children, in
\* order, and raises no error but one that a child raises.
C12_DefaultConcatenatesChildren ==
    (mode = "walker" /\ walk.done /\ tree[pos].kind = "tag" /\ ~IsRecognized(tree[pos]))
        => walk.result = parse_all_children(tree[pos], 1, 0, FALSE)

\* The content of a paragraph: the fragments of its children with the
\* newlines removed from the strings, merged and trimmed of spaces
ParagraphContent(node) ==
    strip_fragments(merge_fragments(parse_all_children(node, 1, 0, TRUE).frs), <<" ">>)

\* C13: a paragraph whose children raise nothing gives its content followed
\* by one Text fragment "\n", or its content alone when the next sibling is
\* a list, also when it has no next sibling; with empty content it gives no
\* fragments.
C13_ParagraphNewline ==
    ( /\ mode = "walker" /\ walk.done
      /\ tree[pos].kind = "tag" /\ tree[pos].name = "p"
      /\ parse_all_children(tree[pos], 1, 0, TRUE).err = "" )
        => walk.result =
               Ok(IF ParagraphContent(tree[pos]) = <<>> THEN <<>>
                  ELSE IF pos < Len(tree) /\ tree[pos + 1].name = "ul"
                  THEN ParagraphContent(tree[pos])
                  ELSE ParagraphContent(tree[pos]) \o <<Fragment("Text", "\n", "")>>)

=============================================================================
